---- MODULE Spec2Model ----
(***************************************************************************)
(* Streaming tick client of connector/dnse (test_cli.py, stream.py):       *)
(* the MQTT callbacks on_connect / on_message / on_disconnect, the CSV     *)
(* sink append_tick_to_csv and the driver run().                           *)
(*                                                                         *)
(* Python values are records [t, m, e, s]: t is the type tag, (m, e) the   *)
(* decimal m * 10^-e of a number, s the characters of a string.            *)
(***************************************************************************)
EXTENDS Integers, Sequences, FiniteSets, TLC

(* ---------------------------------------------------------------------- *)
(* Bounds of the model                                                     *)
(* ---------------------------------------------------------------------- *)
\* data rows the sink may hold before message delivery is cut off
MaxRows == 2
\* disconnect episodes explored in one run
MaxEpisodes == 2

(* ---------------------------------------------------------------------- *)
(* Python values                                                           *)
(* ---------------------------------------------------------------------- *)
PyNone == [t |-> "none", m |-> 0, e |-> 0, s |-> <<>>]

PyInt(n) == [t |-> "int", m |-> n, e |-> 0, s |-> <<>>]

\* the float m * 10^-e, kept in lowest terms (1.50 and 1.5 are one value)
RECURSIVE PyFloat(_, _)
PyFloat(m, e) ==
    IF e > 0 /\ m % 10 = 0 THEN PyFloat(m \div 10, e - 1)
    ELSE [t |-> "float", m |-> m, e |-> e, s |-> <<>>]

PyNaN == [t |-> "nan", m |-> 0, e |-> 0, s |-> <<>>]

PyStr(chars) == [t |-> "str", m |-> 0, e |-> 0, s |-> chars]

\* the cell csv.DictWriter writes for a key the record lacks (restval '')
RestVal == PyStr(<<>>)

(* ---------------------------------------------------------------------- *)
(* float(x), as the on_message callback applies it                         *)
(* ---------------------------------------------------------------------- *)
Digits == {"0", "1", "5"}

DigitVal(c) == CASE c = "0" -> 0 [] c = "1" -> 1 [] c = "5" -> 5 [] OTHER -> 0

Lower(c) == CASE c = "N" -> "n" [] c = "A" -> "a" [] OTHER -> c

\* str.strip() of the blanks float() ignores at both ends
RECURSIVE LStrip(_)
LStrip(s) == IF s # <<>> /\ Head(s) = " " THEN LStrip(Tail(s)) ELSE s

RECURSIVE RStrip(_)
RStrip(s) ==
    IF s # <<>> /\ s[Len(s)] = " " THEN RStrip(SubSeq(s, 1, Len(s) - 1)) ELSE s

Strip(s) == RStrip(LStrip(s))

\* the text after an optional leading sign
Unsigned(s) == IF s # <<>> /\ Head(s) \in {"-", "+"} THEN Tail(s) ELSE s

Sign(s) == IF s # <<>> /\ Head(s) = "-" THEN -1 ELSE 1

DotCount(s) == Cardinality({i \in 1..Len(s) : s[i] = "."})

\* digits with at most one decimal point and at least one digit
IsDecimalLiteral(s) ==
    /\ \A i \in 1..Len(s) : s[i] \in Digits \cup {"."}
    /\ DotCount(s) <= 1
    /\ Len(s) - DotCount(s) >= 1

IsNanLiteral(s) == Len(s) = 3 /\ [i \in 1..3 |-> Lower(s[i])] = <<"n", "a", "n">>

\* the integer spelled by the digits of s, the decimal point skipped
RECURSIVE Mantissa(_, _)
Mantissa(s, acc) ==
    IF s = <<>> THEN acc
    ELSE IF Head(s) = "." THEN Mantissa(Tail(s), acc)
    ELSE Mantissa(Tail(s), 10 * acc + DigitVal(Head(s)))

\* number of digits after the decimal point
FracDigits(s) ==
    IF DotCount(s) = 0 THEN 0
    ELSE Len(s) - (CHOOSE i \in 1..Len(s) : s[i] = ".")

\* float(str): [ok, val]; ok = FALSE is ValueError
FloatOfStr(chars) ==
    LET body == Unsigned(Strip(chars)) IN
    IF IsNanLiteral(body) THEN [ok |-> TRUE, val |-> PyNaN]
    ELSE IF IsDecimalLiteral(body)
         THEN [ok |-> TRUE,
               val |-> PyFloat(Sign(Strip(chars)) * Mantissa(body, 0), FracDigits(body))]
         ELSE [ok |-> FALSE, val |-> PyNone]

\* float(x) that lets a string it cannot parse through unchanged
PyFloatOfUnchecked(x) ==
    CASE x.t \in {"int", "float"} ->
            [exc |-> "none", val |-> PyFloat(x.m, x.e)]
      [] x.t = "nan" -> [exc |-> "none", val |-> PyNaN]
      [] x.t = "str" ->
            IF FloatOfStr(x.s).ok
            THEN [exc |-> "none", val |-> FloatOfStr(x.s).val]
            ELSE [exc |-> "none", val |-> x]
      [] OTHER -> [exc |-> "TypeError", val |-> PyNone]

\* float(x): [exc, val]; exc is "none", "ValueError" or "TypeError"
PyFloatOf(x) ==
    CASE x.t \in {"int", "float"} ->
            [exc |-> "none", val |-> PyFloat(x.m, x.e)]
      [] x.t = "nan" -> [exc |-> "none", val |-> PyNaN]
      [] x.t = "str" ->
            IF FloatOfStr(x.s).ok
            THEN [exc |-> "none", val |-> FloatOfStr(x.s).val]
            ELSE [exc |-> "ValueError", val |-> PyNone]
      [] OTHER -> [exc |-> "TypeError", val |-> PyNone]

(* ---------------------------------------------------------------------- *)
(* Inbound messages                                                        *)
(* ---------------------------------------------------------------------- *)
\* marks a key the record does not carry
Absent == [t |-> "absent", m |-> 0, e |-> 0, s |-> <<>>]

\* a JSON object with the given values; Absent leaves the key out
MkDict(price, qty, time, bogus) ==
    LET keys == {"symbol"}
                  \cup (IF price # Absent THEN {"matchPrice"} ELSE {})
                  \cup (IF qty # Absent THEN {"matchQtty"} ELSE {})
                  \cup (IF time # Absent THEN {"time"} ELSE {})
                  \cup (IF bogus # Absent THEN {"bogus"} ELSE {})
    IN [k \in keys |->
          CASE k = "symbol" -> PyStr(<<"F">>)
            [] k = "matchPrice" -> price
            [] k = "matchQtty" -> qty
            [] k = "time" -> time
            [] OTHER -> bogus]

NoObj == [k \in {} |-> PyNone]

\* msg.payload: kind is what msg.payload.decode() and json.loads make of it;
\* names are the key names occurring in a JSON string (as substrings) or in a
\* JSON array (as elements); obj is the mapping of a JSON object
Payload(kind, names, obj) == [kind |-> kind, names |-> names, obj |-> obj]

PriceValues ==
    {Absent, PyInt(15), PyStr(<<"1", ".", "5", "0">>), PyStr(<<"N", "/", "A">>), PyNone}

QtyValues == {Absent, PyStr(<<" ", "1", "0">>), PyStr(<<>>), PyNone}

\* records carrying a field besides symbol, price and quantity: "time" is a
\* column of the sink, "bogus" is not
ExtraPayloads ==
    {Payload("dict", {}, MkDict(PyStr(<<"1", ".", "5", "0">>), PyStr(<<" ", "1", "0">>),
                                PyStr(<<"9">>), Absent)),
     Payload("dict", {}, MkDict(PyInt(15), PyStr(<<" ", "1", "0">>), PyNone, Absent)),
     Payload("dict", {}, MkDict(PyInt(15), PyStr(<<" ", "1", "0">>), Absent, PyInt(1)))}

DictPayloads ==
    {Payload("dict", {}, MkDict(p, q, Absent, Absent)) :
        p \in PriceValues, q \in QtyValues} \cup ExtraPayloads

OtherPayloads ==
    {Payload("badutf8", {}, NoObj), Payload("badjson", {}, NoObj),
     Payload("scalar", {}, NoObj),
     Payload("str", {}, NoObj), Payload("str", {"matchPrice", "matchQtty"}, NoObj),
     Payload("list", {"matchPrice"}, NoObj),
     Payload("list", {"matchPrice", "matchQtty"}, NoObj)}

Payloads == DictPayloads \cup OtherPayloads

\* no message: the callback that ran last was not on_message
NoMsg == Payload("nomsg", {}, NoObj)

(* ---------------------------------------------------------------------- *)
(* The sink: append_tick_to_csv                                            *)
(* ---------------------------------------------------------------------- *)
fieldnames ==
    <<"symbol", "matchPrice", "matchQtty", "time", "side", "session", "low",
      "open", "lastUpdated", "volume", "close", "type", "high">>

FieldSet == {fieldnames[i] : i \in 1..Len(fieldnames)}

PriceCol == CHOOSE i \in 1..Len(fieldnames) : fieldnames[i] = "matchPrice"

QtyCol == CHOOSE i \in 1..Len(fieldnames) : fieldnames[i] = "matchQtty"

\* DictWriter.writeheader: the field names, in order
HeaderRow == [i \in 1..Len(fieldnames) |-> PyStr(<<fieldnames[i]>>)]

\* the csv writer emits None as the empty string
Cell(v) == IF v.t = "none" THEN PyStr(<<>>) ELSE v

\* DictWriter._dict_to_list: the values in header order, restval for a
\* missing key
RowOf(tick) ==
    [i \in 1..Len(fieldnames) |->
        IF fieldnames[i] \in DOMAIN tick THEN Cell(tick[fieldnames[i]]) ELSE RestVal]

\* the file tick_data.csv: whether it exists, and its lines
NoFile == [exists |-> FALSE, lines |-> <<>>]

DataRows(snk) == SelectSeq(snk.lines, LAMBDA l : l # HeaderRow)

\* append_tick_to_csv that opens the file for writing, not for appending
append_tick_to_csv_truncating(tick, snk, ioOk) ==
    LET opened == [exists |-> TRUE, lines |-> <<HeaderRow>>]
    IN IF ~ioOk THEN [sink |-> snk, exc |-> "OSError"]
       ELSE IF DOMAIN tick \ FieldSet # {}
            THEN [sink |-> opened, exc |-> "ValueError"]
            ELSE [sink |-> [opened EXCEPT !.lines = Append(@, RowOf(tick))],
                  exc |-> "none"]

\* append_tick_to_csv(tick_data): [sink, exc].  ioOk = FALSE: open() fails.
append_tick_to_csv(tick, snk, ioOk) ==
    LET file_exists == snk.exists
        opened == [exists |-> TRUE,
                   lines |-> IF ~file_exists THEN Append(snk.lines, HeaderRow)
                             ELSE snk.lines]
    IN IF ~ioOk THEN [sink |-> snk, exc |-> "OSError"]
       ELSE IF DOMAIN tick \ FieldSet # {}
            THEN [sink |-> opened, exc |-> "ValueError"]
            ELSE [sink |-> [opened EXCEPT !.lines = Append(@, RowOf(tick))],
                  exc |-> "none"]

(* ---------------------------------------------------------------------- *)
(* on_message                                                              *)
(* ---------------------------------------------------------------------- *)
LogEntry(level, text) == [level |-> level, text |-> text]

\* `name in payload` for the payloads that support it
Contains(p, name) ==
    IF p.kind = "dict" THEN name \in DOMAIN p.obj ELSE name \in p.names

\* on_message(client, userdata, msg): [sink, log, exc]; exc is the exception
\* that leaves the callback ("none": it returns)
on_message(p, snk, ioOk) ==
    LET raise(x) == [sink |-> snk, log |-> <<>>, exc |-> x]
        skip == LogEntry("ERROR", "Invalid data format, skipping tick.")
    IN
    IF p.kind = "badutf8" THEN raise("UnicodeDecodeError")
    ELSE IF p.kind = "badjson" THEN raise("JSONDecodeError")
    ELSE IF p.kind = "scalar" THEN raise("TypeError")
    ELSE IF ~(Contains(p, "matchPrice") /\ Contains(p, "matchQtty"))
         THEN [sink |-> snk, log |-> <<>>, exc |-> "none"]
    ELSE IF p.kind # "dict" THEN raise("TypeError")
    ELSE
    LET price == PyFloatOf(p.obj["matchPrice"]) IN
    IF price.exc = "ValueError" THEN [sink |-> snk, log |-> <<skip>>, exc |-> "none"]
    ELSE IF price.exc # "none" THEN raise(price.exc)
    ELSE
    LET qty == PyFloatOf(p.obj["matchQtty"]) IN
    IF qty.exc = "ValueError" THEN [sink |-> snk, log |-> <<skip>>, exc |-> "none"]
    ELSE IF qty.exc # "none" THEN raise(qty.exc)
    ELSE
    LET tick == [p.obj EXCEPT !["matchPrice"] = price.val, !["matchQtty"] = qty.val]
        wr == append_tick_to_csv(tick, snk, ioOk)
    IN
    IF wr.exc = "none"
    THEN [sink |-> wr.sink, log |-> <<LogEntry("DEBUG", "Received tick data")>>,
          exc |-> "none"]
    ELSE IF wr.exc = "ValueError"
    THEN [sink |-> wr.sink, log |-> <<skip>>, exc |-> "none"]
    ELSE [sink |-> wr.sink, log |-> <<>>, exc |-> wr.exc]

(* ---------------------------------------------------------------------- *)
(* Config                                                                  *)
(* ---------------------------------------------------------------------- *)
FIRST_RECONNECT_DELAY == 1

RECONNECT_RATE == 2

MAX_RECONNECT_COUNT == 12

MAX_RECONNECT_DELAY == 60

\* topic lists run() is started with (args.topics; the default is the second)
TopicConfigs ==
    {<<"plaintext/quotes/stock/tick/+">>,
     <<"plaintext/quotes/derivative/OHLC/1/VN30F1M", "plaintext/quotes/stock/tick/+">>}

\* stream.py: the class attribute Config.TOPICS
StreamTopics ==
    <<"plaintext/quotes/derivative/OHLC/1/VN30F1M", "plaintext/quotes/stock/tick/+">>

\* CONNACK reason codes: 0 is success, 5 is "not authorised"
ConnackCodes == {0, 5}

\* reason codes handed to on_disconnect: 0 when the connection ended on a
\* close request, 7 when it was lost
DisconnectCodes == {0, 7}

\* what client.reconnect() does: it returns, or raises one of these
ReconnectErrors == {"OSError", "WebsocketConnectionError"}

ReconnectOutcomes == {"ok"} \cup ReconnectErrors

\* an except clause that names OSError only
CaughtOnlyOSError(err) == err = "OSError"

\* except Exception as err: every error class reconnect() raises derives
\* from Exception
CaughtByExcept(err) == err \in {"OSError", "WebsocketConnectionError", "ValueError"}

(* ---------------------------------------------------------------------- *)
(* Auth: the two calls to the authentication service                       *)
(* ---------------------------------------------------------------------- *)
\* HTTP status codes the service answers with
AuthStatuses == {200, 204, 401}

\* what the service issues with a 200
IssuedToken == PyStr(<<"jwt">>)

IssuedInvestorId == PyStr(<<"id">>)

\* response.raise_for_status(): raises HTTPError for 4xx and 5xx only
RaisesForStatus(status) == 400 <= status /\ status < 600

\* _get_token / _get_investorid: [exc, val] for a response with this status
\* carrying this value; without a 200 and without a raise the method falls
\* off its end and returns None
AuthResult(status, issued) ==
    IF status = 200 THEN [exc |-> "none", val |-> issued]
    ELSE IF RaisesForStatus(status) THEN [exc |-> "HTTPError", val |-> PyNone]
    ELSE [exc |-> "none", val |-> PyNone]

AuthCall(name, status) == [call |-> name, status |-> status]

\* what the credentials file can be: a mapping with usr and pwd, no file, a
\* YAML list, an empty file (None), text that is not YAML, a mapping
\* without the key pwd
CredsFiles == {"ok", "missing", "list", "empty", "notyaml", "nokey"}

\* test_cli.py, yaml_creds(path): the exception it raises, or "none"
yaml_creds(file) ==
    CASE file = "missing" -> "FileNotFoundError"
      [] file \in {"list", "empty"} -> "ValueError"
      [] file = "notyaml" -> "ValueError"
      [] file = "nokey" -> "KeyError"
      [] OTHER -> "none"

\* stream.py, module level: yaml.safe_load(f), creds['usr'], creds['pwd'];
\* nothing is caught
load_creds(file) ==
    CASE file = "missing" -> "FileNotFoundError"
      [] file \in {"list", "empty"} -> "TypeError"
      [] file = "notyaml" -> "YAMLError"
      [] file = "nokey" -> "KeyError"
      [] OTHER -> "none"

\* stream.py, dnse_auth(username, password): the token of a 200, else the
\* function falls off its end and returns None; it never raises
dnse_auth(status) == IF status = 200 THEN IssuedToken ELSE PyNone

\* stream.py, account_info(jwt_token): the decoded body of a 200, else None
account_info(status) ==
    IF status = 200 THEN [investorId |-> IssuedInvestorId] ELSE PyNone

\* obj[key] for a dict or None
Subscript(obj, key) ==
    IF obj = PyNone THEN [exc |-> "TypeError", val |-> PyNone]
    ELSE [exc |-> "none", val |-> obj[key]]

(* ---------------------------------------------------------------------- *)
(* on_connect                                                              *)
(* ---------------------------------------------------------------------- *)
\* a topic list that asks for delivery quality 1 only
topic_tuple_qos1(topics) ==
    [i \in 1..Len(topics) |-> [topic |-> topics[i], qos |-> 1]]

\* [(topic, SubscribeOptions(qos=2)) for topic in self.config.TOPICS]
topic_tuple(topics) ==
    [i \in 1..Len(topics) |-> [topic |-> topics[i], qos |-> 2]]

\* on_connect that subscribes whatever the reason code is
on_connect_any_rc(rc, is_connected, topics) ==
    [log |-> <<LogEntry("INFO", "Connected to MQTT Broker!")>>,
     subs |-> <<topic_tuple(topics)>>]

\* on_connect(client, userdata, flags, rc): the log entries and the
\* subscribe calls it makes; a subscribe call is its list of (topic, qos)
on_connect(rc, is_connected, topics) ==
    IF rc = 0 /\ is_connected
    THEN [log |-> <<LogEntry("INFO", "Connected to MQTT Broker!")>>,
          subs |-> <<topic_tuple(topics)>>]
    ELSE [log |-> <<LogEntry("ERROR", "Failed to connect, return code")>>,
          subs |-> <<>>]

\* stream.py, on_connect(client, userdata, flags, rc): the reason code alone
\* decides
stream_on_connect(rc, topics) ==
    IF rc = 0
    THEN [log |-> <<LogEntry("INFO", "Connected to MQTT Broker!")>>,
          subs |-> <<topic_tuple(topics)>>]
    ELSE [log |-> <<LogEntry("ERROR", "Failed to connect, return code")>>,
          subs |-> <<>>]

(* ---------------------------------------------------------------------- *)
(* on_disconnect: the backoff arithmetic                                   *)
(* ---------------------------------------------------------------------- *)
Min(a, b) == IF a < b THEN a ELSE b

\* the delay multiplied but not clamped
NextDelayUnclamped(delay) == delay * RECONNECT_RATE

\* reconnect_delay *= RECONNECT_RATE; reconnect_delay = min(.., MAX_RECONNECT_DELAY)
NextDelay(delay) == Min(delay * RECONNECT_RATE, MAX_RECONNECT_DELAY)

\* a while condition that never fails
MayRetryForever(count) == count >= 0

\* the while condition
MayRetry(count) == count < MAX_RECONNECT_COUNT

(* ---------------------------------------------------------------------- *)
(* run(): the topics argument.  A string is a sequence of characters; the  *)
(* literals of ast.literal_eval are read over the characters               *)
(* [ ] ( ) { } , ' a 1.                                                    *)
(* ---------------------------------------------------------------------- *)
Quote == "'"

Punct == {"[", "]", "(", ")", "{", "}", ","}

NameChars == {"a", "1"}

Tok(k, chars) == [k |-> k, s |-> chars]

SetMin(S) == CHOOSE x \in S : \A y \in S : x <= y

IsQuote3(s, i) ==
    i + 2 <= Len(s) /\ s[i] = Quote /\ s[i + 1] = Quote /\ s[i + 2] = Quote

\* index of the last character of the run of characters of `set` that starts at i
RunEnd(s, i, set) ==
    CHOOSE j \in i..Len(s) :
        /\ \A k \in i..j : s[k] \in set
        /\ j = Len(s) \/ s[j + 1] \notin set

TokFail == [ok |-> FALSE, toks |-> <<>>]

Push(tok, r) == IF r.ok THEN [ok |-> TRUE, toks |-> <<tok>> \o r.toks] ELSE r

\* the tokens of s from position i on; not ok: the tokenizer's SyntaxError
RECURSIVE Tokenize(_, _)
Tokenize(s, i) ==
    IF i > Len(s) THEN [ok |-> TRUE, toks |-> <<>>]
    ELSE IF s[i] \in Punct THEN Push(Tok("op", s[i]), Tokenize(s, i + 1))
    ELSE IF IsQuote3(s, i)
    THEN LET J == {j \in (i + 3)..Len(s) : IsQuote3(s, j)} IN
         IF J = {} THEN TokFail
         ELSE Push(Tok("str", SubSeq(s, i + 3, SetMin(J) - 1)),
                   Tokenize(s, SetMin(J) + 3))
    ELSE IF s[i] = Quote
    THEN LET J == {j \in (i + 1)..Len(s) : s[j] = Quote} IN
         IF J = {} THEN TokFail
         ELSE Push(Tok("str", SubSeq(s, i + 1, SetMin(J) - 1)),
                   Tokenize(s, SetMin(J) + 1))
    ELSE IF s[i] = "1"
    THEN LET j == RunEnd(s, i, {"1"}) IN
         IF j < Len(s) /\ s[j + 1] = "a" THEN TokFail
         ELSE Push(Tok("int", SubSeq(s, i, j)), Tokenize(s, j + 1))
    ELSE IF s[i] = "a"
    THEN LET j == RunEnd(s, i, NameChars) IN
         Push(Tok("name", SubSeq(s, i, j)), Tokenize(s, j + 1))
    ELSE TokFail

\* a node of the syntax tree, and the value it converts to: t is "int", "str",
\* "name", "list", "tuple", "set", "dict" or "trailer" (a call or a subscript)
Node(t, chars, items) == [t |-> t, s |-> chars, items |-> items]

NoNode == Node("none", <<>>, <<>>)

ParseFail == [ok |-> FALSE, node |-> NoNode, items |-> <<>>, commas |-> 0, next |-> 0]

Parsed(node, next) ==
    [ok |-> TRUE, node |-> node, items |-> <<>>, commas |-> 0, next |-> next]

IsOp(toks, i, c) == i <= Len(toks) /\ toks[i].k = "op" /\ toks[i].s = c

StartsExpr(toks, i) ==
    i <= Len(toks) /\ (toks[i].k # "op" \/ toks[i].s \in {"[", "(", "{"})

Closer(c) == IF c = "[" THEN "]" ELSE IF c = "(" THEN ")" ELSE "}"

\* what a bracketed atom denotes
Display(c, items, commas) ==
    IF c = "[" THEN Node("list", <<>>, items)
    ELSE IF c = "{"
    THEN IF items = <<>> THEN Node("dict", <<>>, <<>>) ELSE Node("set", <<>>, items)
    ELSE IF Len(items) = 1 /\ commas = 0 THEN items[1]
    ELSE Node("tuple", <<>>, items)

RECURSIVE ParseItems(_, _), ParseAtom(_, _), ParseStrs(_, _, _), ParseTrailers(_, _, _)
\* expr ("," expr)* [","], or nothing
ParseItems(toks, i) ==
    IF ~StartsExpr(toks, i)
    THEN [ok |-> TRUE, node |-> NoNode, items |-> <<>>, commas |-> 0, next |-> i]
    ELSE LET e == ParseAtom(toks, i) IN
         IF ~e.ok THEN ParseFail
         ELSE IF IsOp(toks, e.next, ",")
         THEN LET r == ParseItems(toks, e.next + 1) IN
              IF ~r.ok THEN ParseFail
              ELSE [ok |-> TRUE, node |-> NoNode, items |-> <<e.node>> \o r.items,
                    commas |-> r.commas + 1, next |-> r.next]
         ELSE [ok |-> TRUE, node |-> NoNode, items |-> <<e.node>>, commas |-> 0,
               next |-> e.next]

\* adjacent string literals are joined
ParseStrs(toks, i, chars) ==
    IF i <= Len(toks) /\ toks[i].k = "str"
    THEN ParseStrs(toks, i + 1, chars \o toks[i].s)
    ELSE Parsed(Node("str", chars, <<>>), i)

\* calls and subscripts after an atom
ParseTrailers(toks, i, node) ==
    IF IsOp(toks, i, "(") \/ IsOp(toks, i, "[")
    THEN LET r == ParseItems(toks, i + 1) IN
         IF /\ r.ok
            /\ IsOp(toks, r.next, Closer(toks[i].s))
            /\ toks[i].s = "[" => r.items # <<>>
         THEN ParseTrailers(toks, r.next + 1, Node("trailer", <<>>, <<>>))
         ELSE ParseFail
    ELSE Parsed(node, i)

ParseAtom(toks, i) ==
    IF i > Len(toks) THEN ParseFail
    ELSE IF toks[i].k = "str"
    THEN LET a == ParseStrs(toks, i, <<>>) IN ParseTrailers(toks, a.next, a.node)
    ELSE IF toks[i].k \in {"int", "name"}
    THEN ParseTrailers(toks, i + 1, Node(toks[i].k, toks[i].s, <<>>))
    ELSE IF toks[i].s \in {"[", "(", "{"}
    THEN LET r == ParseItems(toks, i + 1) IN
         IF r.ok /\ IsOp(toks, r.next, Closer(toks[i].s))
         THEN ParseTrailers(toks, r.next + 1, Display(toks[i].s, r.items, r.commas))
         ELSE ParseFail
    ELSE ParseFail

\* ast.parse(s, mode='eval'): a bare "1,1" is a tuple
ParseEval(s) ==
    LET t == Tokenize(s, 1) IN
    IF ~t.ok THEN ParseFail
    ELSE LET r == ParseItems(t.toks, 1) IN
         IF r.ok /\ r.items # <<>> /\ r.next = Len(t.toks) + 1
         THEN Parsed(Display("(", r.items, r.commas), r.next)
         ELSE ParseFail

RECURSIVE Hashable(_), AllHashable(_, _)
AllHashable(items, i) ==
    i > Len(items) \/ (Hashable(items[i]) /\ AllHashable(items, i + 1))

Hashable(v) ==
    \/ v.t \in {"int", "str"}
    \/ v.t = "tuple" /\ AllHashable(v.items, 1)

RECURSIVE Convert(_), ConvertAll(_, _, _)
\* map(_convert, elts), consumed from the left; a set hashes each element as
\* it arrives
ConvertAll(items, i, mustHash) ==
    IF i > Len(items) THEN "none"
    ELSE LET e == Convert(items[i]) IN
         IF e # "none" THEN e
         ELSE IF mustHash /\ ~Hashable(items[i]) THEN "TypeError"
         ELSE ConvertAll(items, i + 1, mustHash)

\* _convert(node): the exception it raises, or "none"
Convert(n) ==
    IF n.t \in {"int", "str", "dict"} THEN "none"
    ELSE IF n.t \in {"list", "tuple"} THEN ConvertAll(n.items, 1, FALSE)
    ELSE IF n.t = "set" THEN ConvertAll(n.items, 1, TRUE)
    ELSE "ValueError"

\* ast.literal_eval(s): [exc, val]
literal_eval(s) ==
    LET r == ParseEval(s) IN
    IF ~r.ok THEN [exc |-> "SyntaxError", val |-> NoNode]
    ELSE IF Convert(r.node) # "none" THEN [exc |-> Convert(r.node), val |-> NoNode]
    ELSE [exc |-> "none", val |-> r.node]

IsStrNode(v) == v.t = "str"

RECURSIVE AllStr(_, _)
\* all(isinstance(topic, str) for topic in topics)
AllStr(items, i) == i > Len(items) \/ (IsStrNode(items[i]) /\ AllStr(items, i + 1))

\* for topic in topics, tuple(topics): what can be iterated
Iterable(v) == v.t \in {"list", "tuple", "set", "dict", "str"}

\* run(), the topics argument up to topics_tuple = tuple(topics):
\* [exc, topics_tuple]
parse_topics(arg) ==
    LET raise(x) == [exc |-> x, topics_tuple |-> <<>>]
        check(topics) ==
            IF ~Iterable(topics) THEN raise("TypeError")
            ELSE IF ~AllStr(topics.items, 1) THEN raise("ValueError")
            ELSE [exc |-> "none",
                  topics_tuple |-> [i \in 1..Len(topics.items) |-> topics.items[i].s]]
    IN IF IsStrNode(arg)
       THEN LET r == literal_eval(arg.s) IN
            IF r.exc \in {"ValueError", "SyntaxError"} THEN raise("ValueError")
            ELSE IF r.exc # "none" THEN raise(r.exc)
            ELSE IF r.val.t # "list" THEN raise("ValueError")
            ELSE check(r.val)
       ELSE check(arg)

\* a topic filter written as one symbol that stands for its characters
Topic(name) == Node("str", <<name>>, <<>>)

ListOf(tc) == Node("list", <<>>, [i \in 1..Len(tc) |-> Topic(tc[i])])

\* the topics argument of run(): lists and tuples as argparse or a caller
\* passes them, and strings
TopicArgs ==
    {ListOf(tc) : tc \in TopicConfigs}
    \cup {Node("tuple", <<>>, <<Topic("plaintext/quotes/stock/tick/+")>>),
          Node("list", <<>>, <<Topic("plaintext/quotes/stock/tick/+"),
                               Node("int", <<"1">>, <<>>)>>),
          Node("int", <<"1">>, <<>>)}
    \cup {Node("str", chars, <<>>) : chars \in
            {<<"[", "'", "a", "'", "]">>,
             <<"[", "'", "a", "'", ",", "'", "a", "a", "'", ",", "]">>,
             <<"[", "'", "a", "'", ",", "1", "]">>,
             <<"[", "[", "'", "a", "'", "]", "]">>,
             <<"[", "a", "]">>,
             <<"(", "'", "a", "'", ",", ")">>,
             <<"'", "a", "'", ",", "'", "a", "'">>,
             <<"'", "a", "'">>,
             <<"a">>,
             <<"1">>,
             <<"{", "'", "a", "'", "}">>,
             <<"{", "}">>,
             <<"[", "'", "a", "'">>,
             <<"[", "'", "a", "]">>,
             <<"[", "'", "a", "'", "]", "]">>,
             <<"[", ",", "]">>,
             <<>>,
             <<"{", "[", "'", "a", "'", "]", "}">>,
             <<"[", "{", "[", "1", "]", "}", "]">>,
             <<"{", "a", ",", "[", "1", "]", "}">>,
             <<"[", "'", "a", "'", "]", "[", "1", "]">>}}

\* the argument once tuple(topics) has been taken
NoArg == Node("none", <<>>, <<>>)

(* ---------------------------------------------------------------------- *)
(* core/utils/fetcher.py: Fetcher.fetch                                    *)
(* ---------------------------------------------------------------------- *)
\* a decoded JSON body: its Python type and its len(); "invalid" does not decode
Body(kind, len) == [kind |-> kind, len |-> len]

NoBody == Body("none", 0)

Bodies ==
    {Body(k, n) : k \in {"dict", "list", "str"}, n \in 0..2}
    \cup {Body("int", 0), Body("null", 0), Body("invalid", 0)}

\* statuses a server answers with
HttpStatuses == {200, 204, 404, 500}

\* a container of any size counts as data
_has_data_any_container(response_data) == response_data.kind \in {"dict", "list"}

\* Fetcher._has_data
_has_data(response_data) ==
    IF response_data.kind \in {"dict", "list"} THEN response_data.len # 0 ELSE FALSE

\* Fetcher.fetch: [exc, ret]; sent = FALSE: requests.get raised a
\* RequestException
fetch(sent, status, body) ==
    LET raise(x) == [exc |-> x, ret |-> NoBody] IN
    IF ~sent \/ RaisesForStatus(status) THEN raise("RuntimeError")
    ELSE IF status # 200 THEN raise("ValueError")
    ELSE IF body.kind = "invalid" THEN raise("JSONDecodeError")
    ELSE IF ~_has_data(body) THEN raise("ValueError")
    ELSE [exc |-> "none", ret |-> body]

(* ---------------------------------------------------------------------- *)
(* explorer/vnd/market.py: Market._index_validation                        *)
(* ---------------------------------------------------------------------- *)
Upper(c) ==
    LET lower == <<"a", "b", "c", "d", "e", "f", "g", "h", "i", "j", "k", "l", "m",
                   "n", "o", "p", "q", "r", "s", "t", "u", "v", "w", "x", "y", "z">>
        caps == <<"A", "B", "C", "D", "E", "F", "G", "H", "I", "J", "K", "L", "M",
                  "N", "O", "P", "Q", "R", "S", "T", "U", "V", "W", "X", "Y", "Z">>
    IN IF \E i \in 1..26 : lower[i] = c
       THEN caps[CHOOSE i \in 1..26 : lower[i] = c]
       ELSE c

\* str.upper()
upper(str) == [i \in 1..Len(str) |-> Upper(str[i])]

VNINDEX == <<"V", "N", "I", "N", "D", "E", "X">>

HNXINDEX == <<"H", "N", "X", "I", "N", "D", "E", "X">>

UPCOMINDEX == <<"U", "P", "C", "O", "M", "I", "N", "D", "E", "X">>

HNX == <<"H", "N", "X">>

UPCOM == <<"U", "P", "C", "O", "M">>

_INDEX_MAPPING(index) ==
    CASE index = VNINDEX -> VNINDEX
      [] index = HNXINDEX -> HNX
      [] index = UPCOMINDEX -> UPCOM

\* index names a caller passes
IndexNames ==
    {<<"V", "N", "I", "N", "D", "E", "X">>,
     <<"v", "n", "i", "n", "d", "e", "x">>,
     <<"V", "n", "I", "n", "d", "e", "x">>,
     <<"H", "N", "X">>,
     <<"h", "n", "x">>,
     <<"H", "N", "X", "I", "N", "D", "E", "X">>,
     <<"h", "n", "x", "i", "n", "d", "e", "x">>,
     <<"U", "P", "C", "O", "M", "I", "N", "D", "E", "X">>,
     <<"U", "P", "C", "O", "M">>,
     <<"V", "N", "3", "0">>,
     <<>>}

\* Market._index_validation: [exc, ret]
_index_validation(index) ==
    IF upper(index) \notin {VNINDEX, HNXINDEX}
    THEN [exc |-> "ValueError", ret |-> <<>>]
    ELSE [exc |-> "none", ret |-> _INDEX_MAPPING(upper(index))]

(* ---------------------------------------------------------------------- *)
(* explorer/cafef/trading.py: Trading                                      *)
(* ---------------------------------------------------------------------- *)
Queries == {"price_history", "foreign_trade", "prop_trade", "order_stats", "insider_deal"}

\* a DataFrame of so many rows, or None
Frame(rows) == [t |-> "DataFrame", rows |-> rows]

NoFrame == [t |-> "None", rows |-> 0]

\* Trading._df_standardized
_df_standardized(history_data) ==
    IF history_data.rows = 0 THEN NoFrame ELSE history_data

\* a query of Trading answered with `status` and `rows` data rows: [exc, ret]
query(name, status, rows) ==
    LET raise(x) == [exc |-> x, ret |-> NoFrame]
        df == _df_standardized(Frame(rows))
    IN IF status # 200 THEN raise("ConnectionError")
       ELSE IF name = "insider_deal"
       THEN IF df = NoFrame THEN raise("TypeError") ELSE [exc |-> "none", ret |-> df]
       ELSE IF df = NoFrame THEN raise("AttributeError")
       ELSE [exc |-> "none", ret |-> df]

(* ---------------------------------------------------------------------- *)
(* core/utils/user_agent.py: get_headers                                   *)
(* ---------------------------------------------------------------------- *)
\* dict[k] = v
SetItem(d, k, v) == [x \in DOMAIN d \cup {k} |-> IF x = k THEN v ELSE d[x]]

\* dict.update(e)
Update(d, e) == [x \in DOMAIN d \cup DOMAIN e |-> IF x \in DOMAIN e THEN e[x] ELSE d[x]]

EmptyDict == [x \in {} |-> ""]

\* the literal that the module binds to VDS_HEADERS when it is imported
VDS_HEADERS_literal ==
    [x \in {"Accept", "Accept-Language", "Connection", "Content-Type",
            "Sec-Fetch-Dest", "Sec-Fetch-Mode", "Sec-Fetch-Site",
            "X-Requested-With", "sec-ch-ua-mobile", "sec-ch-ua-platform"} |->
       CASE x = "Accept" -> "application/json, text/javascript, */*; q=0.01"
         [] x = "Accept-Language" -> "en-US,en;q=0.9"
         [] x = "Connection" -> "keep-alive"
         [] x = "Content-Type" -> "application/x-www-form-urlencoded; charset=UTF-8"
         [] x = "Sec-Fetch-Dest" -> "empty"
         [] x = "Sec-Fetch-Mode" -> "cors"
         [] x = "Sec-Fetch-Site" -> "same-origin"
         [] x = "X-Requested-With" -> "XMLHttpRequest"
         [] x = "sec-ch-ua-mobile" -> "?0"
         [] x = "sec-ch-ua-platform" -> "\"Windows\""]

\* DEFAULT_HEADERS is imported from the vnstock package; one entry stands for
\* its content
DEFAULT_HEADERS == [x \in {"Accept"} |-> "application/json, text/plain, */*"]

Referer(r, o) == [x \in {"Referer", "Origin"} |-> IF x = "Referer" THEN r ELSE o]

\* the two data sources that adapters of this package pass to get_headers
VDS == <<"V", "D", "S">>

CAFEF == <<"C", "A", "F", "E", "F">>

\* HEADERS_MAPPING_SOURCE.get(data_source, {}) for the six sources this
\* module adds to the mapping; {} for a name in no mapping
HEADERS_MAPPING_SOURCE(data_source) ==
    CASE data_source = <<"V", "N", "D">> ->
           Referer("https://mkw.vndirect.com.vn", "https://mkw.vndirect.com.vn")
      [] data_source = VDS ->
           Referer("https://livedragon.vdsc.com.vn/general/intradayBoard.rv",
                   "https://livedragon.vdsc.com.vn")
      [] data_source = <<"F", "I", "A", "L", "D", "A">> ->
           Referer("https://fwt.fialda.com/", "https://fwt.fialda.com")
      [] data_source = <<"F", "I", "I", "N", "T", "R", "A", "D", "E">> ->
           Referer("https://fiintrade.vn", "https://fiintrade.vn/")
      [] data_source = <<"F", "I", "D", "T">> ->
           Referer("https://portal.fidt.vn", "https://portal.fidt.vn/")
      [] data_source = CAFEF ->
           Referer("https://s.cafef.vn/lich-su-giao-dich-vnindex-3.chn",
                   "https://s.cafef.vn/lich-su-giao-dich-vnindex-3.chn")
      [] OTHER -> EmptyDict

\* what ua.random and ua.chrome can give
UserAgents(random_agent) ==
    IF random_agent THEN {"Mozilla/5.0 Firefox", "Mozilla/5.0 Chrome"}
    ELSE {"Mozilla/5.0 Chrome"}

\* the dict objects: 0 is the one bound to VDS_HEADERS, i >= 1 the i-th dict
\* made by a .copy()
Deref(ref, template, made) == IF ref = 0 THEN template ELSE made[ref]

Assign(ref, d, template, made) ==
    IF ref = 0 THEN [VDS_HEADERS |-> d, copies |-> made]
    ELSE [VDS_HEADERS |-> template, copies |-> [made EXCEPT ![ref] = d]]

\* get_headers(data_source, random_agent), agent being what ua gave:
\* [ref, VDS_HEADERS, copies], the dict returned and the dicts afterwards
get_headers(data_source, agent, template, made) ==
    LET src == upper(data_source)
        ref == IF src = VDS THEN 0 ELSE Len(made) + 1
        before == IF ref = 0 THEN made ELSE Append(made, DEFAULT_HEADERS)
        headers == Update(SetItem(Deref(ref, template, before), "User-Agent", agent),
                          HEADERS_MAPPING_SOURCE(src))
        after == Assign(ref, headers, template, before)
    IN [ref |-> ref, VDS_HEADERS |-> after.VDS_HEADERS, copies |-> after.copies]

(* ---------------------------------------------------------------------- *)
(* State                                                                   *)
(* ---------------------------------------------------------------------- *)
VARIABLES
    program,          \* the script that runs: "test_cli.py", "stream.py", or "none"
    phase,            \* start-up: "config", "token", "constructed", "looping", "crashed"
    TOPICS,           \* config.TOPICS
    conn,             \* transport: "disconnected", "connecting", "connected", "refused"
    cb,               \* the callback invoked last and its input: [name, rc, msg]
    dpc,              \* position in on_disconnect: "idle", "while", "try"
    reconnect_count,  \* local of on_disconnect
    reconnect_delay,  \* local of on_disconnect
    sleeps,           \* delays slept by the current or latest on_disconnect call
    FLAG_EXIT,        \* MQTTClient.FLAG_EXIT
    subs,             \* subscribe calls made by the callback invoked last
    log,              \* log entries written by the callback invoked last
    exc,              \* exception that left the callback invoked last, or "none"
    sink,             \* the file tick_data.csv
    episodes,         \* on_disconnect invocations so far
    op,               \* transport request made by the last step
    token,            \* Auth.token, then Config.PASSWORD
    investor_id,      \* Auth.investor_id, then Config.USERNAME
    auth_calls,       \* requests made to the authentication service, in order
    topics,           \* run(): the topics argument, until topics_tuple is taken
    call,             \* the library call made last: [fn, args, exc, ret]
    VDS_HEADERS,      \* user_agent.VDS_HEADERS, the dict the module holds
    copies,           \* the dicts made by DEFAULT_HEADERS.copy(), in order
    instances,        \* the adapters built so far: [adapter, headers, cookie]
    pending           \* the network call a constructor waits in, or "none"

vars == <<program, phase, TOPICS, conn, cb, dpc, reconnect_count, reconnect_delay, sleeps,
          FLAG_EXIT, subs, log, exc, sink, episodes, op, token, investor_id,
          auth_calls, topics, call, VDS_HEADERS, copies, instances, pending>>

\* the state of the library outside the streaming client
lib == <<call, VDS_HEADERS, copies, instances, pending>>

\* variables that the client's callbacks and the start-up of run() leave alone
aside == <<program, topics, lib>>

Call(fn, args, r) == [fn |-> fn, args |-> args, exc |-> r.exc, ret |-> r.ret]

NoCall == [fn |-> "none", args |-> <<>>, exc |-> "none", ret |-> <<>>]

\* the modules are imported and no library call has been made
LibIdle ==
    /\ call = NoCall
    /\ VDS_HEADERS = VDS_HEADERS_literal
    /\ copies = <<>>
    /\ instances = <<>>
    /\ pending = "none"

\* the session credentials and the record of how they were obtained
creds == <<token, investor_id, auth_calls>>

Callback(name, rc, msg) == [name |-> name, rc |-> rc, msg |-> msg]

\* tick_data.csv before the run: absent, or left with its header by an
\* earlier run
InitialSinks == {NoFile, [exists |-> TRUE, lines |-> <<HeaderRow>>]}

\* the two scripts of connector/dnse
Programs == {"test_cli.py", "stream.py"}

Cli == program = "test_cli.py"

Stream == program = "stream.py"

\* test_cli.py: run() has parsed its topics and enters Config(creds_path,
\* topics_tuple); stream.py: the module is about to read the credentials
\* file, its topics are the constant Config.TOPICS
Init ==
    /\ program \in Programs
    /\ phase = "config"
    /\ token = Absent
    /\ investor_id = Absent
    /\ auth_calls = <<>>
    /\ TOPICS \in IF Cli THEN TopicConfigs ELSE {StreamTopics}
    /\ conn = "disconnected"
    /\ cb = Callback("none", 0, NoMsg)
    /\ dpc = "idle"
    /\ reconnect_count = 0
    /\ reconnect_delay = FIRST_RECONNECT_DELAY
    /\ sleeps = <<>>
    /\ FLAG_EXIT = FALSE
    /\ subs = <<>>
    /\ log = <<>>
    /\ exc = "none"
    /\ sink \in InitialSinks
    /\ episodes = 0
    /\ op = "none"
    /\ topics = NoArg
    /\ LibIdle

\* test_cli.py: run(creds_path, topics) is entered
RunInit ==
    /\ program = "test_cli.py"
    /\ phase = "start"
    /\ topics \in TopicArgs
    /\ TOPICS = <<>>
    /\ token = Absent
    /\ investor_id = Absent
    /\ auth_calls = <<>>
    /\ conn = "disconnected"
    /\ cb = Callback("none", 0, NoMsg)
    /\ dpc = "idle"
    /\ reconnect_count = 0
    /\ reconnect_delay = FIRST_RECONNECT_DELAY
    /\ sleeps = <<>>
    /\ FLAG_EXIT = FALSE
    /\ subs = <<>>
    /\ log = <<>>
    /\ exc = "none"
    /\ sink \in InitialSinks
    /\ episodes = 0
    /\ op = "none"
    /\ LibIdle

\* run() parses and checks its topics and takes topics_tuple; an exception
\* ends run()
ParseTopics ==
    /\ Cli
    /\ phase = "start"
    /\ \E r \in {parse_topics(topics)} :
          IF r.exc = "none"
          THEN /\ phase' = "config"
               /\ TOPICS' = r.topics_tuple
               /\ topics' = NoArg
               /\ exc' = "none"
          ELSE /\ phase' = "crashed"
               /\ exc' = r.exc
               /\ UNCHANGED <<TOPICS, topics>>
    /\ UNCHANGED <<conn, cb, dpc, reconnect_count, reconnect_delay, sleeps,
                   FLAG_EXIT, subs, log, sink, episodes, op, creds, program, lib>>

(* ---------------------------------------------------------------------- *)
(* run(): Config (yaml_creds, Auth), MQTTClient                            *)
(* ---------------------------------------------------------------------- *)
\* the actions of start-up leave the client itself alone
ClientUnchanged ==
    UNCHANGED <<TOPICS, conn, cb, dpc, reconnect_count, reconnect_delay, sleeps,
                FLAG_EXIT, subs, log, sink, episodes, op, aside>>

\* test_cli.py: yaml_creds(creds_path), then Auth.__init__ calls
\* self._get_token(); when yaml_creds raises, run() ends and no request is made
GetToken(file, status) ==
    /\ Cli
    /\ phase = "config"
    /\ IF yaml_creds(file) # "none"
       THEN /\ phase' = "crashed"
            /\ exc' = yaml_creds(file)
            /\ UNCHANGED creds
       ELSE \E r \in {AuthResult(status, IssuedToken)} :
            /\ auth_calls' = Append(auth_calls, AuthCall("token", status))
            /\ exc' = r.exc
            /\ token' = IF r.exc = "none" THEN r.val ELSE token
            /\ phase' = IF r.exc = "none" THEN "token" ELSE "crashed"
            /\ UNCHANGED investor_id
    /\ ClientUnchanged

\* test_cli.py: Auth.__init__ calls self._get_investorid() with the token as
\* bearer, the rest of Config.__init__ copies the two values,
\* MQTTClient.__init__ runs
GetInvestorId(status) ==
    /\ Cli
    /\ phase = "token"
    /\ \E r \in {AuthResult(status, IssuedInvestorId)} :
          /\ auth_calls' = Append(auth_calls, AuthCall("account", status))
          /\ exc' = r.exc
          /\ investor_id' = IF r.exc = "none" THEN r.val ELSE investor_id
          /\ phase' = IF r.exc = "none" THEN "constructed" ELSE "crashed"
    /\ UNCHANGED token
    /\ ClientUnchanged

\* stream.py, module level: the credentials file is read, then
\* jwt_token = dnse_auth(username, password); an exception of the read ends
\* the script, an answer other than 200 leaves jwt_token None
DnseAuth(file, status) ==
    /\ Stream
    /\ phase = "config"
    /\ IF load_creds(file) # "none"
       THEN /\ phase' = "crashed"
            /\ exc' = load_creds(file)
            /\ UNCHANGED creds
       ELSE /\ auth_calls' = Append(auth_calls, AuthCall("token", status))
            /\ token' = dnse_auth(status)
            /\ exc' = "none"
            /\ phase' = "token"
            /\ UNCHANGED investor_id
    /\ ClientUnchanged

\* stream.py, module level: investor_id = account_info(jwt_token)['investorId'],
\* the class Config is made, run() builds MQTTClient(); subscripting None
\* ends the script
AccountInfo(status) ==
    /\ Stream
    /\ phase = "token"
    /\ auth_calls' = Append(auth_calls, AuthCall("account", status))
    /\ \E r \in {Subscript(account_info(status), "investorId")} :
          /\ exc' = r.exc
          /\ investor_id' = IF r.exc = "none" THEN r.val ELSE investor_id
          /\ phase' = IF r.exc = "none" THEN "constructed" ELSE "crashed"
    /\ UNCHANGED token
    /\ ClientUnchanged

(* ---------------------------------------------------------------------- *)
(* run(): connect_mqtt, then loop_forever                                  *)
(* ---------------------------------------------------------------------- *)
\* client.connect that, when it fails, starts the backoff loop
ConnectMqttRetry(ok) ==
    /\ phase = "constructed"
    /\ op' = "connect"
    /\ phase' = "looping"
    /\ exc' = "none"
    /\ IF ok
       THEN conn' = "connecting" /\ dpc' = dpc
       ELSE conn' = "disconnected" /\ dpc' = "while"
    /\ UNCHANGED <<TOPICS, cb, reconnect_count, reconnect_delay, sleeps,
                   FLAG_EXIT, subs, log, sink, episodes, creds, aside>>

\* client = my_mqtt_client.connect_mqtt(); client.loop_forever()
\* ok = FALSE: client.connect raises (broker unreachable) and run() ends
ConnectMqtt(ok) ==
    /\ phase = "constructed"
    /\ op' = "connect"
    /\ IF ok
       THEN /\ phase' = "looping"
            /\ conn' = "connecting"
            /\ exc' = "none"
       ELSE /\ phase' = "crashed"
            /\ conn' = "disconnected"
            /\ exc' = "OSError"
    /\ UNCHANGED <<TOPICS, cb, dpc, reconnect_count, reconnect_delay, sleeps,
                   FLAG_EXIT, subs, log, sink, episodes, creds, aside>>

\* a transport loop that runs callbacks while on_disconnect is still running
LoopIdleAnyTime == phase = "looping"

\* the transport loop is between callbacks
LoopIdle == phase = "looping" /\ dpc = "idle"

\* the broker answers code 0 only to the credentials the service issued
BrokerAccepts == token = IssuedToken /\ investor_id = IssuedInvestorId

\* on_connect that clears the exit flag on a new connection
ConnackClearsFlag(rc) ==
    /\ phase = "looping" /\ dpc = "idle"
    /\ conn = "connecting"
    /\ rc = 0 => BrokerAccepts
    /\ conn' = IF rc = 0 THEN "connected" ELSE "refused"
    /\ \E r \in {IF Stream THEN stream_on_connect(rc, TOPICS)
                ELSE on_connect(rc, conn' = "connected", TOPICS)} :
          /\ log' = r.log
          /\ subs' = r.subs
          /\ op' = IF r.subs # <<>> THEN "subscribe" ELSE "none"
    /\ cb' = Callback("on_connect", rc, NoMsg)
    /\ exc' = "none"
    /\ FLAG_EXIT' = FALSE
    /\ UNCHANGED <<phase, TOPICS, dpc, reconnect_count, reconnect_delay, sleeps,
                   sink, episodes, creds, aside>>

\* loop_forever reads a CONNACK and calls the script's on_connect; the
\* transport counts as connected exactly when the code is 0
Connack(rc) ==
    /\ LoopIdle
    /\ conn = "connecting"
    /\ rc = 0 => BrokerAccepts
    /\ conn' = IF rc = 0 THEN "connected" ELSE "refused"
    /\ \E r \in {IF Stream THEN stream_on_connect(rc, TOPICS)
                ELSE on_connect(rc, conn' = "connected", TOPICS)} :
          /\ log' = r.log
          /\ subs' = r.subs
          /\ op' = IF r.subs # <<>> THEN "subscribe" ELSE "none"
    /\ cb' = Callback("on_connect", rc, NoMsg)
    /\ exc' = "none"
    /\ UNCHANGED <<phase, TOPICS, dpc, reconnect_count, reconnect_delay, sleeps,
                   FLAG_EXIT, sink, episodes, creds, aside>>

\* loop_forever reads a PUBLISH and calls on_message; an exception leaving
\* the callback leaves loop_forever and run()
Deliver(msg, ioOk) ==
    /\ LoopIdle
    /\ conn = "connected"
    /\ Len(DataRows(sink)) < MaxRows
    /\ \E r \in {on_message(msg, sink, ioOk)} :
          /\ sink' = r.sink
          /\ log' = r.log
          /\ exc' = r.exc
          /\ phase' = IF r.exc = "none" THEN "looping" ELSE "crashed"
    /\ cb' = Callback("on_message", 0, msg)
    /\ subs' = <<>>
    /\ op' = "none"
    /\ UNCHANGED <<TOPICS, conn, dpc, reconnect_count, reconnect_delay, sleeps,
                   FLAG_EXIT, episodes, creds, aside>>

(* ---------------------------------------------------------------------- *)
(* on_disconnect, one step per loop position                               *)
(* ---------------------------------------------------------------------- *)
\* on_disconnect entered with the counter and the delay of the previous call
DropCarryOver(rc) ==
    /\ Cli
    /\ phase = "looping" /\ dpc = "idle"
    /\ conn \in {"connecting", "connected", "refused"}
    /\ episodes < MaxEpisodes
    /\ episodes' = episodes + 1
    /\ conn' = "disconnected"
    /\ cb' = Callback("on_disconnect", rc, NoMsg)
    /\ log' = <<LogEntry("INFO", "Disconnected with result code")>>
    /\ subs' = <<>>
    /\ exc' = "none"
    /\ sleeps' = <<>>
    /\ dpc' = "while"
    /\ op' = "none"
    /\ UNCHANGED <<phase, TOPICS, FLAG_EXIT, sink, reconnect_count, reconnect_delay,
                   creds, aside>>

\* stream.py: the transport finds the connection gone and calls
\* on_disconnect, which logs the reason code and returns
StreamDrop(rc) ==
    /\ Stream
    /\ LoopIdle
    /\ conn \in {"connecting", "connected", "refused"}
    /\ episodes < MaxEpisodes
    /\ episodes' = episodes + 1
    /\ conn' = "disconnected"
    /\ cb' = Callback("on_disconnect", rc, NoMsg)
    /\ log' = <<LogEntry("INFO", "Disconnected with result code")>>
    /\ subs' = <<>>
    /\ exc' = "none"
    /\ sleeps' = <<>>
    /\ op' = "none"
    /\ UNCHANGED <<phase, TOPICS, dpc, reconnect_count, reconnect_delay, FLAG_EXIT,
                   sink, creds, aside>>

\* test_cli.py: the transport finds the connection gone and calls
\* on_disconnect: the first log line and the initialisation of the two locals
Drop(rc) ==
    /\ Cli
    /\ LoopIdle
    /\ conn \in {"connecting", "connected", "refused"}
    /\ episodes < MaxEpisodes
    /\ episodes' = episodes + 1
    /\ conn' = "disconnected"
    /\ cb' = Callback("on_disconnect", rc, NoMsg)
    /\ log' = <<LogEntry("INFO", "Disconnected with result code")>>
    /\ subs' = <<>>
    /\ exc' = "none"
    /\ reconnect_count' = 0
    /\ reconnect_delay' = FIRST_RECONNECT_DELAY
    /\ sleeps' = <<>>
    /\ dpc' = "while"
    /\ op' = "none"
    /\ UNCHANGED <<phase, TOPICS, FLAG_EXIT, sink, creds, aside>>

\* the while test passes: log and time.sleep(reconnect_delay)
Sleep ==
    /\ dpc = "while"
    /\ MayRetry(reconnect_count)
    /\ log' = Append(log, LogEntry("INFO", "Reconnecting in seconds..."))
    /\ sleeps' = Append(sleeps, reconnect_delay)
    /\ dpc' = "try"
    /\ op' = "sleep"
    /\ UNCHANGED <<phase, TOPICS, conn, cb, reconnect_count, reconnect_delay,
                   FLAG_EXIT, subs, exc, sink, episodes, creds, aside>>

\* a reconnect that asks the authentication service for a new token first
ReconnectReauth(outcome) ==
    /\ dpc = "try"
    /\ op' = "reconnect"
    /\ auth_calls' = Append(auth_calls, AuthCall("token", 200))
    /\ IF outcome = "ok"
       THEN /\ conn' = "connecting"
            /\ log' = Append(log, LogEntry("INFO", "Reconnected successfully!"))
            /\ dpc' = "idle"
            /\ UNCHANGED <<reconnect_count, reconnect_delay>>
       ELSE /\ conn' = conn
            /\ log' = Append(log, LogEntry("ERROR", "Reconnect failed. Retrying..."))
            /\ reconnect_delay' = NextDelay(reconnect_delay)
            /\ reconnect_count' = reconnect_count + 1
            /\ dpc' = "while"
    /\ UNCHANGED <<phase, exc, TOPICS, cb, sleeps, FLAG_EXIT, subs, sink, episodes,
                   token, investor_id, aside>>

\* client.reconnect(); it returns, or it raises: an error the except clause
\* catches is logged and the delay and the counter advance, any other error
\* leaves on_disconnect and ends loop_forever
Reconnect(outcome) ==
    /\ dpc = "try"
    /\ op' = "reconnect"
    /\ IF outcome = "ok"
       THEN /\ conn' = "connecting"
            /\ log' = Append(log, LogEntry("INFO", "Reconnected successfully!"))
            /\ dpc' = "idle"
            /\ UNCHANGED <<reconnect_count, reconnect_delay, phase, exc>>
       ELSE IF CaughtByExcept(outcome)
       THEN /\ conn' = conn
            /\ log' = Append(log, LogEntry("ERROR", "Reconnect failed. Retrying..."))
            /\ reconnect_delay' = NextDelay(reconnect_delay)
            /\ reconnect_count' = reconnect_count + 1
            /\ dpc' = "while"
            /\ UNCHANGED <<phase, exc>>
       ELSE /\ exc' = outcome
            /\ phase' = "crashed"
            /\ dpc' = "idle"
            /\ UNCHANGED <<conn, log, reconnect_count, reconnect_delay>>
    /\ UNCHANGED <<TOPICS, cb, sleeps, FLAG_EXIT, subs, sink, episodes, creds, aside>>

\* the while test fails: log the exhaustion, set the flag and return
GiveUp ==
    /\ dpc = "while"
    /\ ~MayRetry(reconnect_count)
    /\ log' = Append(log, LogEntry("INFO", "Reconnect failed after attempts. Exiting..."))
    /\ FLAG_EXIT' = TRUE
    /\ dpc' = "idle"
    /\ op' = "none"
    /\ UNCHANGED <<phase, TOPICS, conn, cb, reconnect_count, reconnect_delay,
                   sleeps, subs, exc, sink, episodes, creds, aside>>

\* a reconnect of the loop that resumes the session with no on_connect call
LoopReconnectResumed ==
    /\ LoopIdle
    /\ conn = "disconnected"
    /\ conn' = "connected"
    /\ op' = "loop_reconnect"
    /\ UNCHANGED <<phase, TOPICS, cb, dpc, reconnect_count, reconnect_delay,
                   sleeps, FLAG_EXIT, subs, log, exc, sink, episodes, creds, aside>>

\* on_disconnect has returned with the connection still down; loop_forever,
\* which run() leaves running whatever FLAG_EXIT says, reconnects by itself
LoopReconnect ==
    /\ LoopIdle
    /\ conn = "disconnected"
    /\ conn' = "connecting"
    /\ op' = "loop_reconnect"
    /\ UNCHANGED <<phase, TOPICS, cb, dpc, reconnect_count, reconnect_delay,
                   sleeps, FLAG_EXIT, subs, log, exc, sink, episodes, creds, aside>>

\* the steps of test_cli.py alone
CliNext ==
    \/ \E file \in CredsFiles, status \in AuthStatuses : GetToken(file, status)
    \/ \E status \in AuthStatuses : GetInvestorId(status)
    \/ \E rc \in DisconnectCodes : Drop(rc)
    \/ Sleep
    \/ \E outcome \in ReconnectOutcomes : Reconnect(outcome)
    \/ GiveUp

\* the steps of stream.py alone
StreamNext ==
    \/ \E file \in CredsFiles, status \in AuthStatuses : DnseAuth(file, status)
    \/ \E status \in AuthStatuses : AccountInfo(status)
    \/ \E rc \in DisconnectCodes : StreamDrop(rc)

\* the steps whose code is the same in the two scripts
CommonNext ==
    \/ \E ok \in BOOLEAN : ConnectMqtt(ok)
    \/ \E rc \in ConnackCodes : Connack(rc)
    \/ \E msg \in Payloads, ioOk \in BOOLEAN : Deliver(msg, ioOk)
    \/ LoopReconnect

Next == CliNext \/ StreamNext \/ CommonNext

Spec == Init /\ [][Next]_vars

\* test_cli.py, run() from its entry
RunNext == ParseTopics \/ CliNext \/ CommonNext

RunSpec == RunInit /\ [][RunNext]_vars

(* ---------------------------------------------------------------------- *)
(* Library calls                                                           *)
(* ---------------------------------------------------------------------- *)
MaxInstances == 2

RowCounts == 0..2

Cookies == {"JSESSIONID=1", "JSESSIONID=2"}

\* the variables of the streaming client
client == <<program, phase, TOPICS, conn, cb, dpc, reconnect_count, reconnect_delay, sleeps,
            FLAG_EXIT, subs, log, exc, sink, episodes, op, creds, topics>>

\* no run() is in progress
LibInit ==
    /\ program = "none"
    /\ phase = "none"
    /\ topics = NoArg
    /\ TOPICS = <<>>
    /\ token = Absent
    /\ investor_id = Absent
    /\ auth_calls = <<>>
    /\ conn = "disconnected"
    /\ cb = Callback("none", 0, NoMsg)
    /\ dpc = "idle"
    /\ reconnect_count = 0
    /\ reconnect_delay = FIRST_RECONNECT_DELAY
    /\ sleeps = <<>>
    /\ FLAG_EXIT = FALSE
    /\ subs = <<>>
    /\ log = <<>>
    /\ exc = "none"
    /\ sink = NoFile
    /\ episodes = 0
    /\ op = "none"
    /\ LibIdle

\* Fetcher.fetch(endpoint, params)
Fetch(sent, status, body) ==
    /\ call' = Call("fetch", <<sent, status, body>>, fetch(sent, status, body))
    /\ UNCHANGED <<client, VDS_HEADERS, copies, instances, pending>>

\* Market(index): self.index = self._index_validation(index)
IndexValidation(index) ==
    /\ call' = Call("_index_validation", <<index>>, _index_validation(index))
    /\ UNCHANGED <<client, VDS_HEADERS, copies, instances, pending>>

\* Trading(symbol).price_history(...), .foreign_trade(...), ...
Query(name, status, rows) ==
    /\ call' = Call(name, <<status, rows>>, query(name, status, rows))
    /\ UNCHANGED <<client, VDS_HEADERS, copies, instances, pending>>

Instance(adapter, ref, cookie) == [adapter |-> adapter, headers |-> ref, cookie |-> cookie]

\* data sources handed to get_headers: the six this module adds, one spelt
\* in lower case, one that no mapping knows
DataSources ==
    {<<"V", "N", "D">>, VDS, <<"F", "I", "A", "L", "D", "A">>,
     <<"F", "I", "I", "N", "T", "R", "A", "D", "E">>, <<"F", "I", "D", "T">>, CAFEF,
     <<"v", "d", "s">>, <<"X">>}

\* the cookie argument of vds Quote when none is given
NoCookie == "None"

\* what get_cookie(url, headers) does: it returns a cookie or raises
CookieOutcomes == Cookies \cup {"OSError"}

\* get_headers(data_source, random_agent) called on its own
GetHeaders(data_source, agent) ==
    /\ pending = "none"
    /\ upper(data_source) # VDS => Len(copies) < MaxInstances
    /\ \E r \in {get_headers(data_source, agent, VDS_HEADERS, copies)} :
           /\ VDS_HEADERS' = r.VDS_HEADERS
           /\ copies' = r.copies
           /\ call' = Call("get_headers", <<data_source>>,
                           [exc |-> "none", ret |-> <<r.ref>>])
    /\ UNCHANGED <<client, instances, pending>>

\* vds Quote(symbol, cookie, random_agent): get_headers('VDS') and the
\* Content-Type; with a cookie given it is stored and the instance exists,
\* with none the constructor goes on to get_cookie
NewQuote(cookie, agent) ==
    /\ pending = "none"
    /\ Len(instances) < MaxInstances
    /\ \E r \in {get_headers(VDS, agent, VDS_HEADERS, copies)} :
         \E h \in {SetItem(Deref(r.ref, r.VDS_HEADERS, r.copies), "Content-Type",
                           "application/x-www-form-urlencoded; charset=UTF-8")} :
           IF cookie = NoCookie
           THEN /\ VDS_HEADERS' = Assign(r.ref, h, r.VDS_HEADERS, r.copies).VDS_HEADERS
                /\ copies' = Assign(r.ref, h, r.VDS_HEADERS, r.copies).copies
                /\ pending' = "get_cookie"
                /\ UNCHANGED instances
           ELSE \E hc \in {SetItem(h, "Cookie", cookie)} :
                /\ VDS_HEADERS' = Assign(r.ref, hc, r.VDS_HEADERS, r.copies).VDS_HEADERS
                /\ copies' = Assign(r.ref, hc, r.VDS_HEADERS, r.copies).copies
                /\ instances' = Append(instances, Instance("vds.Quote", r.ref, cookie))
                /\ UNCHANGED pending
    /\ call' = Call("Quote", <<cookie>>, [exc |-> "none", ret |-> <<>>])
    /\ UNCHANGED client

\* vds Quote.__init__: get_cookie(url, headers=self.headers) returns and the
\* cookie is stored in self.headers, or it raises and no instance is made
GetCookie(outcome) ==
    /\ pending = "get_cookie"
    /\ pending' = "none"
    /\ IF outcome \in Cookies
       THEN /\ VDS_HEADERS' = SetItem(VDS_HEADERS, "Cookie", outcome)
            /\ instances' = Append(instances, Instance("vds.Quote", 0, outcome))
            /\ UNCHANGED call
       ELSE /\ call' = [call EXCEPT !.exc = outcome]
            /\ UNCHANGED <<VDS_HEADERS, instances>>
    /\ UNCHANGED <<client, copies>>

\* cafef Trading(symbol, random_agent)
NewTrading(agent) ==
    /\ pending = "none"
    /\ Len(instances) < MaxInstances
    /\ Len(copies) < MaxInstances
    /\ \E r \in {get_headers(CAFEF, agent, VDS_HEADERS, copies)} :
           /\ VDS_HEADERS' = r.VDS_HEADERS
           /\ copies' = r.copies
           /\ instances' = Append(instances, Instance("cafef.Trading", r.ref, ""))
    /\ call' = Call("Trading", <<>>, [exc |-> "none", ret |-> <<>>])
    /\ UNCHANGED <<client, pending>>

\* calls that change no state of the library
LibNext ==
    \/ \E sent \in BOOLEAN, status \in HttpStatuses, body \in Bodies :
         Fetch(sent, status, body)
    \/ \E index \in IndexNames : IndexValidation(index)
    \/ \E name \in Queries, status \in HttpStatuses, rows \in RowCounts :
         Query(name, status, rows)

LibSpec == LibInit /\ [][LibNext]_vars

\* calls that make or change request headers
HeadersNext ==
    \/ \E data_source \in DataSources, random_agent \in BOOLEAN :
         \E agent \in UserAgents(random_agent) : GetHeaders(data_source, agent)
    \/ \E cookie \in Cookies \cup {NoCookie}, random_agent \in BOOLEAN :
         \E agent \in UserAgents(random_agent) : NewQuote(cookie, agent)
    \/ \E outcome \in CookieOutcomes : GetCookie(outcome)
    \/ \E random_agent \in BOOLEAN :
         \E agent \in UserAgents(random_agent) : NewTrading(agent)

HeadersSpec == LibInit /\ [][HeadersNext]_vars

\* a callback that has been entered runs on: on_disconnect takes its steps
\* until it returns, and loop_forever then asks for a new connection.  What
\* the broker and the network do is not constrained.
FairSpec ==
    /\ Spec
    /\ WF_vars(Sleep)
    /\ WF_vars(\E outcome \in ReconnectOutcomes : Reconnect(outcome))
    /\ WF_vars(GiveUp)
    /\ WF_vars(LoopReconnect)

(* ---------------------------------------------------------------------- *)
(* Vocabulary of the properties                                            *)
(* ---------------------------------------------------------------------- *)
IsDict(p) == p.kind = "dict"

HasPrice(p) == IsDict(p) /\ "matchPrice" \in DOMAIN p.obj

HasQtty(p) == IsDict(p) /\ "matchQtty" \in DOMAIN p.obj

\* the value is a number or a text float() reads as one
Numeric(v) == PyFloatOf(v).exc = "none"

\* a record with both fields present and numeric
ValidTick(p) ==
    /\ HasPrice(p) /\ HasQtty(p)
    /\ Numeric(p.obj["matchPrice"]) /\ Numeric(p.obj["matchQtty"])

IsNumber(cell) == cell.t \in {"float", "nan"}

\* the row a valid record must leave in the sink: every field it carries in
\* its column, price and quantity as numbers
ExpectedRow(p) ==
    [i \in 1..Len(fieldnames) |->
        CASE i = PriceCol -> PyFloatOf(p.obj["matchPrice"]).val
          [] i = QtyCol -> PyFloatOf(p.obj["matchQtty"]).val
          [] fieldnames[i] \in DOMAIN p.obj -> Cell(p.obj[fieldnames[i]])
          [] OTHER -> RestVal]

ErrorCount(entries) ==
    Cardinality({i \in 1..Len(entries) : entries[i].level = "ERROR"})

RowsOfSink == DataRows(sink)

(* ---------------------------------------------------------------------- *)
(* C1.  Every data row of the sink was appended by an on_message call whose *)
(* message carried both matchPrice and matchQtty, both coercible to a      *)
(* number, and holds numbers in those two columns; no other step adds or   *)
(* changes a data row.                                                     *)
(* ---------------------------------------------------------------------- *)
C1_RowsAreNumeric ==
    \A i \in 1..Len(RowsOfSink) :
        IsNumber(RowsOfSink[i][PriceCol]) /\ IsNumber(RowsOfSink[i][QtyCol])

C1_RowsFromValidTicks ==
    /\ []C1_RowsAreNumeric
    /\ [][DataRows(sink') # DataRows(sink)
            => cb'.name = "on_message" /\ ValidTick(cb'.msg)]_vars

C1_Witness ==
    /\ cb.name = "on_message" /\ ValidTick(cb.msg)
    /\ Len(RowsOfSink) = 2

(* ---------------------------------------------------------------------- *)
(* C2.  No on_message call lets an exception out: after every on_message   *)
(* call no exception is pending and the transport loop is still running.   *)
(* ---------------------------------------------------------------------- *)
C2_NeverPropagates ==
    cb.name = "on_message" => exc = "none" /\ phase = "looping"

(* ---------------------------------------------------------------------- *)
(* C3.  An on_message call for a record whose price and quantity are       *)
(* present and numeric, whatever other fields it carries, appends exactly  *)
(* one row holding every field of the record, price and quantity as        *)
(* numbers (the sink file being writable).                                 *)
(* ---------------------------------------------------------------------- *)
C3_ValidTickAppendsOneRow ==
    [][cb'.name = "on_message" /\ ValidTick(cb'.msg) /\ exc' # "OSError"
         => DataRows(sink') = Append(DataRows(sink), ExpectedRow(cb'.msg))]_vars

(* ---------------------------------------------------------------------- *)
(* C4.  With the default configuration the delays slept in one on_disconnect *)
(* call are a prefix of 1,2,4,8,16,32,60,60,60,60,60,60, and the exit flag  *)
(* is set (the exhaustion is logged) only when all twelve have been slept   *)
(* and twelve attempts have failed.                                         *)
(* ---------------------------------------------------------------------- *)
BackoffDefaults == <<1, 2, 4, 8, 16, 32, 60, 60, 60, 60, 60, 60>>

IsPrefix(a, b) == Len(a) <= Len(b) /\ \A i \in 1..Len(a) : a[i] = b[i]

\* the latest on_disconnect call ended by giving up
Exhausted ==
    /\ cb.name = "on_disconnect" /\ dpc = "idle"
    /\ log[Len(log)].text = "Reconnect failed after attempts. Exiting..."

C4_BackoffSchedule ==
    /\ [](IsPrefix(sleeps, BackoffDefaults) /\ (Exhausted => FLAG_EXIT))
    /\ [][(FLAG_EXIT' # FLAG_EXIT \/ (Exhausted' /\ ~Exhausted))
            => FLAG_EXIT' /\ sleeps' = BackoffDefaults /\ reconnect_count' = 12]_vars

C4_Witness == FLAG_EXIT /\ Exhausted /\ sleeps = BackoffDefaults

(* ---------------------------------------------------------------------- *)
(* C5.  Once the exit flag is set no step attempts a connection, issues a  *)
(* subscribe request or adds a row to the sink.                            *)
(* ---------------------------------------------------------------------- *)
C5_FailedIsTerminal ==
    [][FLAG_EXIT
         => /\ op' \notin {"connect", "reconnect", "loop_reconnect", "subscribe"}
            /\ DataRows(sink') = DataRows(sink)]_vars

(* ---------------------------------------------------------------------- *)
(* C6.  An on_message call for a record lacking matchPrice or matchQtty    *)
(* adds no row and writes exactly one ERROR log entry.                     *)
(* ---------------------------------------------------------------------- *)
C6_MissingFieldLoggedOnce ==
    [][cb'.name = "on_message" /\ IsDict(cb'.msg)
          /\ ~(HasPrice(cb'.msg) /\ HasQtty(cb'.msg))
         => DataRows(sink') = DataRows(sink) /\ ErrorCount(log') = 1]_vars

(* ---------------------------------------------------------------------- *)
(* C7.  An on_message call for a record whose matchPrice or matchQtty is   *)
(* present but not numeric adds no row, writes an ERROR log entry and      *)
(* returns normally, the transport loop still running.                     *)
(* ---------------------------------------------------------------------- *)
PresentNonNumeric(p) ==
    \/ HasPrice(p) /\ ~Numeric(p.obj["matchPrice"])
    \/ HasQtty(p) /\ ~Numeric(p.obj["matchQtty"])

C7_NonNumericDroppedAndLogged ==
    [][cb'.name = "on_message" /\ PresentNonNumeric(cb'.msg)
         => /\ DataRows(sink') = DataRows(sink)
            /\ ErrorCount(log') >= 1
            /\ exc' = "none" /\ phase' = "looping"]_vars

(* ---------------------------------------------------------------------- *)
(* C8.  After an on_connect call with reason code 0 exactly one subscribe  *)
(* call has been made; it lists every configured topic, in order, each at  *)
(* delivery quality 2.                                                     *)
(* ---------------------------------------------------------------------- *)
C8_SuccessSubscribesAll ==
    cb.name = "on_connect" /\ cb.rc = 0
      => /\ Len(subs) = 1
         /\ Len(subs[1]) = Len(TOPICS)
         /\ \A i \in 1..Len(TOPICS) :
               subs[1][i].topic = TOPICS[i] /\ subs[1][i].qos = 2

C8_Witness ==
    cb.name = "on_connect" /\ cb.rc = 0 /\ Len(TOPICS) = 2 /\ op = "subscribe"

(* ---------------------------------------------------------------------- *)
(* C9.  After an on_connect call with a non-zero reason code one ERROR     *)
(* entry has been logged and no subscribe call made; a subscribe call is   *)
(* only ever made by an on_connect call with reason code 0.                *)
(* ---------------------------------------------------------------------- *)
C9_FailureNoSubscribe ==
    /\ cb.name = "on_connect" /\ cb.rc # 0 => subs = <<>> /\ ErrorCount(log) = 1
    /\ subs # <<>> \/ op = "subscribe" => cb.name = "on_connect" /\ cb.rc = 0

C9_Witness == cb.name = "on_connect" /\ cb.rc = 5 /\ conn = "refused"

(* ---------------------------------------------------------------------- *)
(* C10.  Every on_disconnect call starts with counter 0 and the initial    *)
(* delay; inside a call the counter is the number of attempts that failed  *)
(* in this call and the delay is the one the schedule gives for that       *)
(* count, whatever earlier calls did.                                      *)
(* ---------------------------------------------------------------------- *)
\* attempts of the current on_disconnect call that have failed
FailedSoFar == Len(sleeps) - (IF dpc = "try" THEN 1 ELSE 0)

C10_CountsThisEpisode ==
    dpc # "idle"
      => /\ reconnect_count = FailedSoFar
         /\ reconnect_count < 12 => reconnect_delay = BackoffDefaults[reconnect_count + 1]

C10_FreshBudgetEachEpisode ==
    /\ []C10_CountsThisEpisode
    /\ [][dpc = "idle" /\ dpc' # "idle"
            => reconnect_count' = 0 /\ reconnect_delay' = FIRST_RECONNECT_DELAY]_vars

\* a second call that uses all twelve attempts after a first call that ended
\* with a successful reconnect
C10_Witness == episodes = 2 /\ ~FLAG_EXIT /\ dpc = "while" /\ reconnect_count = 12

(* ---------------------------------------------------------------------- *)
(* C11.  Every append (an on_message call that reached the sink, the file  *)
(* being writable) leaves the file with the header as its first line and   *)
(* nowhere else, and with one data row more than before: n appends to a    *)
(* new file give the header and n data rows.                               *)
(* ---------------------------------------------------------------------- *)
HeaderCount(lines) == Cardinality({i \in 1..Len(lines) : lines[i] = HeaderRow})

C11_HeaderOnceThenOneRowPerAppend ==
    [][cb'.name = "on_message" /\ ValidTick(cb'.msg) /\ exc' # "OSError"
         => /\ sink'.exists
            /\ sink'.lines[1] = HeaderRow
            /\ HeaderCount(sink'.lines) = 1
            /\ Len(sink'.lines) = Len(DataRows(sink)) + 2]_vars

(* ---------------------------------------------------------------------- *)
(* C12.  An on_disconnect call for a connection that ended on a close      *)
(* request (reason code 0) sleeps at no time, attempts no reconnect and    *)
(* leaves the exit flag as it was.                                         *)
(* ---------------------------------------------------------------------- *)
C12_NoBackoffOnExplicitClose ==
    [][cb'.name = "on_disconnect" /\ cb'.rc = 0
         => op' \notin {"sleep", "reconnect"} /\ FLAG_EXIT' = FLAG_EXIT]_vars

(* ---------------------------------------------------------------------- *)
(* C13.  Whatever the reconnect attempts raise, on_disconnect lets no      *)
(* exception out and run() goes on; giving up changes the exit flag (and   *)
(* the log) and nothing else.                                              *)
(* ---------------------------------------------------------------------- *)
C13_Contained == cb.name = "on_disconnect" => exc = "none" /\ phase = "looping"

C13_FailureIsState ==
    /\ []C13_Contained
    /\ [][dpc = "while" /\ dpc' = "idle"
            => /\ FLAG_EXIT'
               /\ UNCHANGED <<phase, TOPICS, conn, cb, reconnect_count,
                              reconnect_delay, sleeps, subs, exc, sink, creds, aside>>]_vars

C13_Witness ==
    Exhausted /\ FLAG_EXIT /\ exc = "none" /\ phase = "looping" /\ op = "none"

(* ---------------------------------------------------------------------- *)
(* C14.  Once the exit flag is set, run() eventually leaves the transport  *)
(* loop.                                                                   *)
(* ---------------------------------------------------------------------- *)
C14_RunEventuallyReturns == FLAG_EXIT ~> phase # "looping"

(* ---------------------------------------------------------------------- *)
(* C15.  A response other than 200 to either authentication call ends      *)
(* start-up with an error: no further call is made to the service and no   *)
(* connection is attempted.                                                *)
(* ---------------------------------------------------------------------- *)
C15_AuthFailureIsFatal ==
    \A i \in 1..Len(auth_calls) :
        auth_calls[i].status # 200
          => /\ phase = "crashed" /\ exc = "HTTPError"
             /\ Len(auth_calls) = i
             /\ op = "none" /\ conn = "disconnected"

(* ---------------------------------------------------------------------- *)
(* C16.  Whenever connect_mqtt is reached, the token and the account       *)
(* identifier are non-empty strings.                                       *)
(* ---------------------------------------------------------------------- *)
NonEmpty(v) == v.t = "str" /\ v.s # <<>>

C16_CredentialsNonEmpty ==
    phase = "constructed" \/ op = "connect"
      => NonEmpty(token) /\ NonEmpty(investor_id)

(* ---------------------------------------------------------------------- *)
(* C17.  A failing initial connect ends run() with the error: the backoff  *)
(* loop is not entered, nothing is retried, the exit flag stays false, and *)
(* no on_disconnect call ever happens before a connect succeeded.          *)
(* ---------------------------------------------------------------------- *)
C17_NoLoopBeforeFirstConnect ==
    /\ dpc # "idle" \/ sleeps # <<>> \/ FLAG_EXIT => episodes >= 1
    /\ phase = "crashed" /\ op = "connect"
         => /\ exc = "OSError" /\ conn = "disconnected"
            /\ ~FLAG_EXIT /\ dpc = "idle" /\ sleeps = <<>> /\ episodes = 0

C17_InitialConnectFailureIsFatal ==
    /\ []C17_NoLoopBeforeFirstConnect
    /\ [][phase = "constructed" /\ conn' # "connecting"
            => phase' = "crashed" /\ exc' = "OSError"]_vars
    /\ [][phase # "crashed"]_vars

C17_Witness == phase = "crashed" /\ op = "connect" /\ exc = "OSError"

(* ---------------------------------------------------------------------- *)
(* C18.  When the client exists the authentication service has been called *)
(* exactly twice, for the token and then for the account; no later step    *)
(* calls it again or changes the token or the account identifier.          *)
(* ---------------------------------------------------------------------- *)
ClientExists == phase \in {"constructed", "looping"} \/ op # "none"

C18_TwoCallsInOrder ==
    ClientExists
      => /\ Len(auth_calls) = 2
         /\ auth_calls[1].call = "token" /\ auth_calls[2].call = "account"
         /\ token \in {IssuedToken, PyNone}
         /\ investor_id \in {IssuedInvestorId, PyNone}

C18_CredentialsObtainedOnce ==
    /\ []C18_TwoCallsInOrder
    /\ [][ClientExists => UNCHANGED creds]_vars

C18_Witness ==
    /\ episodes = 2 /\ op = "reconnect" /\ conn = "connecting"
    /\ Len(auth_calls) = 2 /\ token = IssuedToken

(* ---------------------------------------------------------------------- *)
(* C19.  While an on_disconnect call is running no other callback runs:    *)
(* the sink is not written and no subscribe call is made.                  *)
(* ---------------------------------------------------------------------- *)
C19_BackoffBlocksCallbacks ==
    [][dpc # "idle"
         => /\ cb' = cb
            /\ sink' = sink
            /\ subs' = subs
            /\ op' \notin {"subscribe", "connect", "loop_reconnect"}]_vars

C19_Witness ==
    /\ dpc = "try" /\ Len(sleeps) >= 2 /\ conn = "disconnected"
    /\ Len(RowsOfSink) >= 1

(* ---------------------------------------------------------------------- *)
(* C20.  The exit flag is false until the client is built; only the        *)
(* giving-up step of on_disconnect changes it, to true; on_connect,        *)
(* on_message and connect_mqtt leave it as it is.                          *)
(* ---------------------------------------------------------------------- *)
C20_FalseAtConstruction ==
    phase \in {"config", "token", "constructed"} => ~FLAG_EXIT

C20_FlagWrittenOnlyByDisconnect ==
    /\ []C20_FalseAtConstruction
    /\ [][FLAG_EXIT' # FLAG_EXIT
            => FLAG_EXIT' /\ cb.name = "on_disconnect" /\ dpc = "while"]_vars

\* the flag, set by an earlier call, after later on_connect and on_message calls
C20_Witness == FLAG_EXIT /\ cb.name = "on_message" /\ conn = "connected"

(* ---------------------------------------------------------------------- *)
(* C21.  A topics argument that is a string not parsing to a list, or that *)
(* holds a topic that is not a string, makes run() raise ValueError with   *)
(* no credentials read, no authentication call and no connection attempt;  *)
(* any other argument of the set goes on to Config.                        *)
(* ---------------------------------------------------------------------- *)
ParsesToList(arg) ==
    literal_eval(arg.s).exc = "none" /\ literal_eval(arg.s).val.t = "list"

\* the list of topics that run() is given, directly or as a string
GivenTopics(arg) == IF IsStrNode(arg) THEN literal_eval(arg.s).val ELSE arg

BadTopics(arg) ==
    \/ IsStrNode(arg) /\ ~ParsesToList(arg)
    \/ /\ IsStrNode(arg) => ParsesToList(arg)
       /\ Iterable(GivenTopics(arg))
       /\ \E i \in 1..Len(GivenTopics(arg).items) : ~IsStrNode(GivenTopics(arg).items[i])

C21_BadTopicsRaiseValueError ==
    [][phase = "start" /\ BadTopics(topics)
         => /\ phase' = "crashed" /\ exc' = "ValueError"
            /\ op' = "none" /\ conn' = "disconnected"
            /\ UNCHANGED creds]_vars

(* ---------------------------------------------------------------------- *)
(* C24.  When attempt k of an on_disconnect call is the first to succeed,  *)
(* the call returns in that step: k sleeps and k attempts (k - 1 failed)   *)
(* have been made, 1 <= k <= 12, nothing is slept or attempted afterwards  *)
(* until the next disconnect, and the exit flag is false when the call     *)
(* returns.                                                                *)
(* ---------------------------------------------------------------------- *)
\* on_disconnect has returned after a successful attempt
Succeeded ==
    /\ cb.name = "on_disconnect" /\ dpc = "idle" /\ log # <<>>
    /\ log[Len(log)].text = "Reconnected successfully!"

LogCount(text) == Cardinality({i \in 1..Len(log) : log[i].text = text})

C24_SuccessEndsEpisode ==
    Succeeded
      => /\ Len(sleeps) \in 1..12
         /\ LogCount("Reconnecting in seconds...") = Len(sleeps)
         /\ LogCount("Reconnect failed. Retrying...") = Len(sleeps) - 1
         /\ reconnect_count = Len(sleeps) - 1
         /\ LogCount("Reconnect failed after attempts. Exiting...") = 0
         /\ ~FLAG_EXIT

C24_ReturnsAfterFirstSuccess ==
    /\ []C24_SuccessEndsEpisode
    /\ [][op' = "reconnect" /\ conn' = "connecting"
            => dpc' = "idle" /\ Succeeded' /\ FLAG_EXIT' = FLAG_EXIT]_vars
    /\ [][dpc = "idle" /\ episodes' = episodes
            => sleeps' = sleeps /\ op' \notin {"sleep", "reconnect"}]_vars

(* ---------------------------------------------------------------------- *)
(* C25.  Every step that brings the client to Connected, the first connect *)
(* and every reconnect alike, is an on_connect call that subscribes to all *)
(* configured topics, in order.                                            *)
(* ---------------------------------------------------------------------- *)
C25_ResubscribesOnReconnect ==
    [][conn' = "connected" /\ conn # "connected"
         => /\ cb'.name = "on_connect" /\ op' = "subscribe"
            /\ Len(subs') = 1 /\ Len(subs'[1]) = Len(TOPICS)
            /\ \A i \in 1..Len(TOPICS) : subs'[1][i].topic = TOPICS[i]]_vars

C25_Witness ==
    /\ conn = "connected" /\ cb.name = "on_connect" /\ op = "subscribe"
    /\ episodes = 2 /\ Len(subs[1]) = Len(TOPICS)

(* ---------------------------------------------------------------------- *)
(* C26.  In on_disconnect the attempt counter stays within 0..12 and the   *)
(* delay within 1..60, neither decreases during one call, at most 12       *)
(* sleeps are made, and every call returns.                                *)
(* ---------------------------------------------------------------------- *)
C26_Bounded ==
    /\ reconnect_count \in 0..MAX_RECONNECT_COUNT
    /\ reconnect_delay \in FIRST_RECONNECT_DELAY..MAX_RECONNECT_DELAY
    /\ Len(sleeps) <= MAX_RECONNECT_COUNT
    /\ LogCount("Reconnect failed. Retrying...") <= MAX_RECONNECT_COUNT

C26_BoundedAndReturns ==
    /\ []C26_Bounded
    /\ [][episodes' = episodes
            => /\ reconnect_delay' >= reconnect_delay
               /\ reconnect_count' >= reconnect_count]_vars
    /\ (dpc # "idle") ~> (dpc = "idle")

C26_Witness ==
    dpc = "while" /\ reconnect_count = 12 /\ reconnect_delay = 60 /\ Len(sleeps) = 12

(* ---------------------------------------------------------------------- *)
(* C27.  An on_message call that drops its message (it returns without     *)
(* having accepted the record) leaves the sink as it was: no file created, *)
(* no header written, no row added.                                        *)
(* ---------------------------------------------------------------------- *)
AcceptedLog == <<LogEntry("DEBUG", "Received tick data")>>

C27_DropLeavesSinkUntouched ==
    [][cb'.name = "on_message" /\ exc' = "none" /\ log' # AcceptedLog
         => sink' = sink]_vars

(* ---------------------------------------------------------------------- *)
(* C28.  The sink only grows at its end: a step changes it only inside     *)
(* on_message, keeps every line it had, adds at most one data row, and     *)
(* a data row is added exactly when the message is accepted, as the last   *)
(* row and before the call returns.                                        *)
(* ---------------------------------------------------------------------- *)
C28_AppendOnlyInOrder ==
    /\ [][sink' # sink
            => /\ cb'.name = "on_message"
               /\ IsPrefix(sink.lines, sink'.lines)
               /\ Len(DataRows(sink')) <= Len(DataRows(sink)) + 1]_vars
    /\ [][DataRows(sink') # DataRows(sink)
            => /\ log' = AcceptedLog
               /\ DataRows(sink') = Append(DataRows(sink), ExpectedRow(cb'.msg))
               /\ sink'.lines[Len(sink'.lines)] = ExpectedRow(cb'.msg)]_vars
    /\ [][cb'.name = "on_message" /\ log' = AcceptedLog /\ (cb' # cb \/ sink' # sink)
            => Len(DataRows(sink')) = Len(DataRows(sink)) + 1]_vars

C28_Witness ==
    /\ cb.name = "on_message" /\ log = AcceptedLog
    /\ Len(DataRows(sink)) = 2
    /\ DataRows(sink)[1] # DataRows(sink)[2]
    /\ DataRows(sink)[2] = ExpectedRow(cb.msg)

(* ---------------------------------------------------------------------- *)
(* C22.  Fetcher.fetch returns exactly when the request was answered with  *)
(* status 200 and a body that decodes to a non-empty dict or list, and     *)
(* then returns that body; a request that failed (no answer, or a 4xx/5xx  *)
(* status) raises RuntimeError; any other status, and a 200 body that is   *)
(* empty, not a dict or list, or not JSON, raises a ValueError.            *)
(* ---------------------------------------------------------------------- *)
\* requests' JSONDecodeError is a subclass of ValueError
IsValueError(x) == x \in {"ValueError", "JSONDecodeError"}

HasData(body) == body.kind \in {"dict", "list"} /\ body.len > 0

C22_FetchNeverReturnsEmpty ==
    call.fn = "fetch"
      => LET sent == call.args[1]
             status == call.args[2]
             body == call.args[3]
             failed == ~sent \/ status >= 400
         IN /\ call.exc = "none" <=> sent /\ status = 200 /\ HasData(body)
            /\ call.exc = "none" => call.ret = body /\ HasData(call.ret)
            /\ failed => call.exc = "RuntimeError"
            /\ ~failed /\ (status # 200 \/ ~HasData(body)) => IsValueError(call.exc)

C22_Witness ==
    call.fn = "fetch" /\ call.exc = "none" /\ call.ret = Body("list", 2)

(* ---------------------------------------------------------------------- *)
(* C23.  Market._index_validation accepts the index names that are VNINDEX *)
(* or HNX when upper-cased, returns the provider code of each (VNINDEX,    *)
(* HNX), and raises ValueError for every other name.                       *)
(* ---------------------------------------------------------------------- *)
C23_AcceptsVnindexAndHnx ==
    call.fn = "_index_validation"
      => IF upper(call.args[1]) \in {VNINDEX, HNX}
         THEN call.exc = "none" /\ call.ret = upper(call.args[1])
         ELSE call.exc = "ValueError"

(* ---------------------------------------------------------------------- *)
(* C29.  No call of get_headers and no write to the headers of a new       *)
(* adapter changes VDS_HEADERS or the headers that an adapter built        *)
(* earlier holds, and no adapter holds VDS_HEADERS itself.                 *)
(* ---------------------------------------------------------------------- *)
C29_HeadersIndependent ==
    [][/\ VDS_HEADERS' = VDS_HEADERS
       /\ \A i \in 1..Len(instances) :
            Deref(instances[i].headers, VDS_HEADERS', copies')
              = Deref(instances[i].headers, VDS_HEADERS, copies)
       /\ \A i \in 1..Len(instances') : instances'[i].headers # 0]_vars

(* ---------------------------------------------------------------------- *)
(* C30.  Every Trading query answered with status 200 and no data rows     *)
(* returns without raising.                                                *)
(* ---------------------------------------------------------------------- *)
C30_NoDataReturns ==
    call.fn \in Queries /\ call.args = <<200, 0>> => call.exc = "none"

====
